---- MODULE Spec2Model ----
(***************************************************************************)
(* FrameWork: the per-project orchestration core (classification, the      *)
(* sequential script -> storyboard -> shot_list pipeline, the run lock,    *)
(* and the edit path with change detection).  The backend (app/backend)    *)
(* is not part of the sources at hand; its operations follow spec.md       *)
(* sections 3-7 and the README's description of them.                      *)
(***************************************************************************)
EXTENDS Integers, Sequences, FiniteSets, TLC

(* ------------------------------ bounds --------------------------------- *)
\* run requests (scheduled by creation/edit or sent by the client) per project
MaxWalks == 2
\* PUT /script requests per project
MaxEdits == 1

(* --------------------------- stage registry ---------------------------- *)
Stages == {"script", "storyboard", "shot_list"}

RegistrySwapped == <<"script", "shot_list", "storyboard">>
\* Script -> Storyboard -> Shot List, strict dependency order
Registry == <<"script", "storyboard", "shot_list">>

Upstream(s) ==
  CASE s = "storyboard" -> "script"
    [] s = "shot_list"  -> "storyboard"
    [] OTHER            -> "none"

\* the stages invalidated by an edit of stage s
DependentsBroken(s) == IF s = "script" THEN {"storyboard"} ELSE {}
Dependents(s) == IF s = "script" THEN {"storyboard", "shot_list"} ELSE {}

StageStatuses == {"pending", "running", "done", "failed"}
ProjectStatuses == {"created", "processing", "completed", "failed"}

(* ------------------------------ artifacts ------------------------------ *)
\* script: string | null, storyboard: Frame[] | null, shot_list: Shot[] | null
NULL == <<>>

\* the texts that occur as a script, by name
ScriptNames == {"generated", "fallback", "user", "typo", "edge", "scene"}

\* the texts a client sends as an edit: 1%, 3% and 17% away from the
\* generated script
EditNames == {"typo", "edge", "scene"}

\* the raw inputs of a creation request, by the stages whose artifact they embed
RawInputs == {{}, {"script"}, {"script", "storyboard"}}

\* a script text: a 100-line screenplay and edits of it, line by line; the
\* basic fallback script is a 10-line stub
Length(name) ==
  CASE name = "scene" -> 120
    [] name = "fallback" -> 10
    [] name \in {"generated", "user", "typo", "edge"} -> 100
    [] OTHER -> 0

\* the lines of a text that differ from the blank line, and what they hold
Written(name) ==
  CASE name = "user"  -> {100}
    [] name = "typo"  -> {1}
    [] name = "edge"  -> 1..3
    [] name = "scene" -> 101..120
    [] OTHER          -> {}

LineAt(name, i) ==
  IF i \notin Written(name) THEN 0
  ELSE CASE name = "user"  -> 1
         [] name = "scene" -> 7
         [] OTHER          -> 9

\* the text of a script artifact (null: no text)
TextOf(a) == IF a = NULL THEN "null" ELSE a[1]

\* the artifact a stage's generation operation returns for its upstream input
Generate(s, input) ==
  CASE s = "script"     -> <<"generated">>
    [] s = "storyboard" -> <<"frames">> \o input
    [] s = "shot_list"  -> <<"shots">> \o input

\* the basic content a stage's agent produces when its own generation fails
Fallback(s) ==
  CASE s = "script"     -> <<"fallback">>
    [] s = "storyboard" -> <<"fallback_frames">>
    [] s = "shot_list"  -> <<"fallback_shots">>

\* the content the classifier extracts verbatim from the raw input
Extracted(s) ==
  CASE s = "script"     -> <<"user">>
    [] s = "storyboard" -> <<"user_frames">>
    [] s = "shot_list"  -> <<"user_shots">>

(* --------------------------- change analyzer --------------------------- *)
Min(a, b) == IF a < b THEN a ELSE b
Max(a, b) == IF a < b THEN b ELSE a

\* line-level diff of two texts: the lines that differ (only a line written
\* in one of the two can differ) plus the lines added or removed
ChangedUnits(old, new) ==
  Cardinality({i \in Written(old) \cup Written(new) :
                 /\ i <= Min(Length(old), Length(new))
                 /\ LineAt(old, i) # LineAt(new, i)})
    + (Max(Length(old), Length(new)) - Min(Length(old), Length(new)))

TotalUnits(old, new) == Max(Length(old), Length(new))

\* the diff of every stored text against every text, computed once
Diffs ==
  [old \in ScriptNames \cup {"null"}, new \in ScriptNames |->
     [changed |-> ChangedUnits(old, new), total |-> TotalUnits(old, new)]]

\* "< 3% changes -> Skip regeneration"
ThresholdPct == 3

NoShortCircuit(changed, total) == FALSE
\* magnitude = changed / total is below the threshold (total = 0: inconclusive)
BelowThreshold(changed, total) ==
  total > 0 /\ changed * 100 < ThresholdPct * total

Judgements == {"significant", "minor", "error"}

\* analyze(oldArtifact, newArtifact) -> ChangeVerdict; judge is what the
\* qualitative judgment call would return for this edit
Analyze(old, new, judge) ==
  LET changed == Diffs[TextOf(old), TextOf(new)].changed
      total   == Diffs[TextOf(old), TextOf(new)].total
  IN  IF BelowThreshold(changed, total)
        THEN [changed |-> changed, total |-> total, significant |-> FALSE,
              rationale |-> "below threshold"]
      ELSE IF judge = "error"
        THEN [changed |-> changed, total |-> total, significant |-> FALSE,
              rationale |-> "analysis failed"]
      ELSE [changed |-> changed, total |-> total,
            significant |-> (judge = "significant"),
            rationale |-> "judged"]

NoVerdict ==
  [changed |-> 0, total |-> 0, significant |-> FALSE, rationale |-> "none"]

(* -------------------------------- state -------------------------------- *)
VARIABLES
  status,          \* Project.status, "none" before the project exists
  classification,  \* Project.classification
  stage,           \* script_stage / storyboard_stage / shot_list_stage .status
  artifact,        \* Project.script / .storyboard / .shot_list
  lock,            \* the walk holding the project's run lock, 0 when free
  walks,           \* the run requests of the project, by number
  nextWalk,        \* the number of the next run request
  editCount,       \* PUT /script requests handled so far
  edited,          \* the script text of the last PUT /script request
  response         \* the body of the last PUT /script response

\* the Progress Hub and the observers of one project
VARIABLES
  hubSeq,          \* the sequence number of the last ProgressEvent published
  published,       \* the ProgressEvents published so far, in order
  subscribed,      \* the Hub's subscriber set
  since,           \* per subscriber, hubSeq when it last subscribed
  channel,         \* per subscriber, the events sent and not yet received
  inbox,           \* per subscriber, the messages its onmessage has handled
  hookStatus       \* per subscriber, the `status` state of useProjectStatus

\* the browser: the module-level wsCache, the WebSockets and the mounted
\* instances of useProjectStatus
VARIABLES
  wsCache,         \* wsCache[projectId]: the cached WebSocket, 0 when absent
  sockets,         \* the WebSockets created so far, by number
  nextSocket,      \* the number of the next WebSocket
  hooks,           \* the hook instances (one per mount of the dashboard)
  nextHook,        \* the number of the next hook instance
  lastPing         \* the last 'ping' sent: the socket and its readyState then

coreVars == <<status, classification, stage, artifact, lock, walks, nextWalk,
              editCount, edited, response>>

hubVars == <<hubSeq, published, subscribed, since, channel, inbox, hookStatus>>

hookVars == <<wsCache, sockets, nextSocket, hooks, nextHook, lastPing>>

\* the home page: the creation form and handleSubmit
VARIABLES
  prompt,          \* useState prompt: the text typed into the form
  loading,         \* useState loading
  error,           \* useState error, "null" when none
  submitPc,        \* where handleSubmit is: idle, create, run, done
  requests,        \* the requests handleSubmit has issued, in order
  submits,         \* submissions that reached the create request
  runOutcome,      \* how the run request ended, "none" before
  route            \* the page shown: <<"home">> or <<"project", id>>

formVars == <<prompt, loading, error, submitPc, requests, submits, runOutcome, route>>

\* the dashboard of one project: lastUpdate of its hook and its fetches
VARIABLES
  clock,           \* Date.now()
  lastUpdate,      \* useState lastUpdate of the hook
  effectDeps,      \* lastUpdate at the last run of the fetch effect, 0 before
  handled,         \* progress / completed / error messages handled so far
  fetches,         \* the GET /projects/{id} requests issued, in order
  serverData,      \* the version of the project document on the server
  shown            \* useState project: the data shown and the fetch it is from

dashVars == <<clock, lastUpdate, effectDeps, handled, fetches, serverData, shown>>

\* ScriptView: the script editor
VARIABLES
  script,          \* the script prop
  editedScript,    \* useState editedScript
  isEditing,       \* useState isEditing
  isSaving,        \* useState isSaving
  saveStatus,      \* useState saveStatus: "null", analyzing, success, regenerating
  analysisResult,  \* useState analysisResult: "null" or the response body
  settled,         \* how the last save settled: none, failed, regenerate, keep
  timers,          \* pending 3 s timeouts, counted by the should_regenerate
                   \* of the result in their closure
  saves            \* PUT /script requests sent by handleSave

viewVars == <<script, editedScript, isEditing, isSaving, saveStatus,
              analysisResult, settled, timers, saves>>

clientVars == <<hubVars, hookVars, formVars, dashVars, viewVars>>

vars == <<coreVars, clientVars>>

WalkIds == 1..MaxWalks

End == Len(Registry) + 1

NoWalkRec ==
  [state |-> "none", origin |-> "none", skip |-> {}, pos |-> 1,
   waiting |-> FALSE, input |-> NULL, log |-> <<>>, failed |-> FALSE,
   pendingAtStart |-> {}]

ScheduledRec(origin, skip) ==
  [NoWalkRec EXCEPT !.state = "scheduled", !.origin = origin, !.skip = skip]

InitCore ==
  /\ status = "none"
  /\ classification = [s \in Stages |-> FALSE]
  /\ stage = [s \in Stages |-> "pending"]
  /\ artifact = [s \in Stages |-> NULL]
  /\ lock = 0
  /\ walks = [w \in WalkIds |-> NoWalkRec]
  /\ nextWalk = 1
  /\ editCount = 0
  /\ edited = "null"
  /\ response = NoVerdict

(* ----------------------------- orchestrator ---------------------------- *)
PreSatisfied(cls) == {s \in Stages : cls[s]}

NothingMarked(cls) == [s \in Stages |-> "pending"]
\* pre-satisfied stages are marked done at creation, the others pending
InitialStages(cls) == [s \in Stages |-> IF cls[s] THEN "done" ELSE "pending"]

InitialArtifacts(cls) == [s \in Stages |-> IF cls[s] THEN Extracted(s) ELSE NULL]

\* classify(rawInput): supplied = the stages whose artifact the raw input
\* embeds; an inconclusive judgment marks no stage as pre-satisfied
Classify(supplied, conclusive) == [s \in Stages |-> conclusive /\ s \in supplied]

\* createAndRun(rawInput)
CreateAndRun(supplied, conclusive) ==
  /\ status = "none"
  /\ LET cls == Classify(supplied, conclusive)
     IN  /\ classification' = cls
         /\ stage' = InitialStages(cls)
         /\ artifact' = InitialArtifacts(cls)
         /\ walks' = [walks EXCEPT ![nextWalk] = ScheduledRec("create", PreSatisfied(cls))]
  /\ status' = "created"
  /\ nextWalk' = nextWalk + 1
  /\ UNCHANGED <<lock, editCount, edited, response>>

(* --------------------------- pipeline executor ------------------------- *)
LockAlwaysFree == TRUE
LockFree == lock = 0

\* run(project, options): take the run lock or reject the request
Admit(w, origin, skip) ==
  IF LockFree
    THEN /\ lock' = w
         /\ status' = "processing"
         /\ walks' = [walks EXCEPT ![w] =
                        [NoWalkRec EXCEPT !.state = "active", !.origin = origin,
                                          !.skip = skip,
                                          !.pendingAtStart =
                                            {s \in Stages : stage[s] = "pending"}]]
    ELSE /\ walks' = [walks EXCEPT ![w] = [NoWalkRec EXCEPT !.state = "rejected"]]
         /\ UNCHANGED <<lock, status>>

\* a run scheduled by createAndRun or applyEdit starts
StartScheduled(w) ==
  /\ walks[w].state = "scheduled"
  /\ Admit(w, walks[w].origin, walks[w].skip)
  /\ UNCHANGED <<classification, stage, artifact, nextWalk, editCount, edited, response>>

\* POST /projects/{id}/run sent by the client
ClientRun ==
  /\ status # "none"
  /\ nextWalk <= MaxWalks
  /\ Admit(nextWalk, "client", PreSatisfied(classification))
  /\ nextWalk' = nextWalk + 1
  /\ UNCHANGED <<classification, stage, artifact, editCount, edited, response>>

Walking(w) ==
  /\ walks[w].state = "active"
  /\ ~walks[w].waiting
  /\ walks[w].pos < End

Current(w) == Registry[walks[w].pos]

\* the walk passes a stage that is in the skip set or already done
SkipStage(w) ==
  /\ Walking(w)
  /\ Current(w) \in walks[w].skip \/ stage[Current(w)] = "done"
  /\ walks' = [walks EXCEPT ![w].pos = @ + 1]
  /\ UNCHANGED <<status, classification, stage, artifact, lock, nextWalk,
                 editCount, edited, response>>

\* the walk marks the stage running and invokes its generation operation
\* with the current value of the upstream artifact
StartStage(w) ==
  /\ Walking(w)
  /\ Current(w) \notin walks[w].skip
  /\ stage[Current(w)] # "done"
  /\ stage' = [stage EXCEPT ![Current(w)] = "running"]
  /\ walks' = [walks EXCEPT ![w].waiting = TRUE,
                            ![w].input = IF Current(w) = "script" THEN NULL
                                         ELSE artifact[Upstream(Current(w))],
                            ![w].log = Append(@, Current(w))]
  /\ UNCHANGED <<status, classification, artifact, lock, nextWalk, editCount,
                 edited, response>>

\* the generation operation returns: store the artifact, mark done
GenSuccess(w) ==
  /\ walks[w].state = "active"
  /\ walks[w].waiting
  /\ artifact' = [artifact EXCEPT ![Current(w)] = Generate(Current(w), walks[w].input)]
  /\ stage' = [stage EXCEPT ![Current(w)] = "done"]
  /\ walks' = [walks EXCEPT ![w].waiting = FALSE, ![w].input = NULL,
                            ![w].pos = @ + 1]
  /\ UNCHANGED <<status, classification, lock, nextWalk, editCount, edited, response>>

\* the stage's agent fails and degrades gracefully: its basic fallback
\* content is the stage's artifact and the walk goes on
GenFallback(w) ==
  /\ walks[w].state = "active"
  /\ walks[w].waiting
  /\ artifact' = [artifact EXCEPT ![Current(w)] = Fallback(Current(w))]
  /\ stage' = [stage EXCEPT ![Current(w)] = "done"]
  /\ walks' = [walks EXCEPT ![w].waiting = FALSE, ![w].input = NULL,
                            ![w].pos = @ + 1]
  /\ UNCHANGED <<status, classification, lock, nextWalk, editCount, edited, response>>

\* the generation operation fails or times out: mark failed, stop the walk
GenFailure(w) ==
  /\ walks[w].state = "active"
  /\ walks[w].waiting
  /\ stage' = [stage EXCEPT ![Current(w)] = "failed"]
  /\ walks' = [walks EXCEPT ![w].waiting = FALSE, ![w].input = NULL,
                            ![w].pos = End, ![w].failed = TRUE]
  /\ UNCHANGED <<status, classification, artifact, lock, nextWalk, editCount,
                 edited, response>>

\* the overall status that goes with the StageRecords
OverallStatus(st) ==
  IF \A s \in Stages : st[s] = "done" THEN "completed"
  ELSE IF \E s \in Stages : st[s] = "failed" THEN "failed"
  ELSE "created"

FinishUnlessFailed(w) ==
  /\ walks[w].state = "active"
  /\ ~walks[w].waiting
  /\ walks[w].pos = End
  /\ ~walks[w].failed
  /\ lock' = 0
  /\ status' = OverallStatus(stage)
  /\ walks' = [walks EXCEPT ![w] = [NoWalkRec EXCEPT !.state = "finished"]]
  /\ UNCHANGED <<classification, stage, artifact, nextWalk, editCount, edited, response>>
\* after the walk: release the lock and set the overall status
Finish(w) ==
  /\ walks[w].state = "active"
  /\ ~walks[w].waiting
  /\ walks[w].pos = End
  /\ lock' = 0
  /\ status' = OverallStatus(stage)
  /\ walks' = [walks EXCEPT ![w] = [NoWalkRec EXCEPT !.state = "finished"]]
  /\ UNCHANGED <<classification, stage, artifact, nextWalk, editCount, edited, response>>

(* ------------------------------ edit path ------------------------------ *)
\* the edited content is authoritative: the regeneration run skips script
NoSkip == {}
EditSkip == {"script"}

ResetAlways(verdict) == TRUE
RegenerateOnFailure(verdict) ==
  verdict.significant \/ verdict.rationale = "analysis failed"
ShouldRegenerate(verdict) == verdict.significant

PersistIfSignificant(old, new, verdict) == IF verdict.significant THEN new ELSE old
\* newContent is persisted unconditionally
Persisted(old, new, verdict) == new

\* applyEdit(project, "script", newContent) behind PUT /projects/{id}/script
ApplyEdit(name, judge) ==
  /\ status # "none"
  /\ editCount < MaxEdits
  /\ LET new     == <<name>>
         verdict == Analyze(artifact["script"], new, judge)
         regen   == ShouldRegenerate(verdict)
     IN  /\ regen => nextWalk <= MaxWalks
         /\ edited' = name
         /\ response' = verdict
         /\ artifact' = [s \in Stages |->
                           IF s = "script"
                             THEN Persisted(artifact["script"], new, verdict)
                           ELSE IF regen /\ s \in Dependents("script") THEN NULL
                           ELSE artifact[s]]
         /\ stage' = [s \in Stages |->
                        IF regen /\ s \in Dependents("script") THEN "pending"
                        ELSE stage[s]]
         /\ IF regen
              THEN /\ walks' = [walks EXCEPT ![nextWalk] = ScheduledRec("edit", EditSkip)]
                   /\ nextWalk' = nextWalk + 1
              ELSE UNCHANGED <<walks, nextWalk>>
  /\ editCount' = editCount + 1
  /\ UNCHANGED <<status, classification, lock>>

(* ----------------------------- progress hub ---------------------------- *)
\* ProgressEvents published per project
MaxEvents == 2

Subscribers == {"a", "b"}

\* the messages the executor publishes: type, stage and new status
EventKinds ==
  { [type |-> "progress",  stage |-> "script",     status |-> "running", error |-> "null"],
    [type |-> "progress",  stage |-> "script",     status |-> "done",    error |-> "null"],
    [type |-> "progress",  stage |-> "storyboard", status |-> "running", error |-> "null"],
    [type |-> "completed", stage |-> "none",       status |-> "none",    error |-> "null"],
    [type |-> "error",     stage |-> "none",       status |-> "none",    error |-> "boom"] }

Event(n, kind) ==
  [seq |-> n, type |-> kind.type, stage |-> kind.stage, status |-> kind.status,
   error |-> kind.error]

\* useState({script: pending, storyboard: pending, shot_list: pending,
\*           overall: 'created', error: null})
InitialHookStatus ==
  [script |-> "pending", storyboard |-> "pending", shot_list |-> "pending",
   overall |-> "created", error |-> "null"]

InitHub ==
  /\ hubSeq = 0
  /\ published = <<>>
  /\ subscribed = [s \in Subscribers |-> FALSE]
  /\ since = [s \in Subscribers |-> 0]
  /\ channel = [s \in Subscribers |-> <<>>]
  /\ inbox = [s \in Subscribers |-> <<>>]
  /\ hookStatus = [s \in Subscribers |-> InitialHookStatus]

\* subscribe(projectId): events emitted before the subscription are lost
Subscribe(s) ==
  /\ ~subscribed[s]
  /\ subscribed' = [subscribed EXCEPT ![s] = TRUE]
  /\ since' = [since EXCEPT ![s] = hubSeq]
  /\ channel' = [channel EXCEPT ![s] = <<>>]
  /\ UNCHANGED <<hubSeq, published, inbox, hookStatus>>

\* the subscriber disconnects; what was in flight to it is dropped
Unsubscribe(s) ==
  /\ subscribed[s]
  /\ subscribed' = [subscribed EXCEPT ![s] = FALSE]
  /\ channel' = [channel EXCEPT ![s] = <<>>]
  /\ UNCHANGED <<hubSeq, published, since, inbox, hookStatus>>

OneRecipient(subs) ==
  IF \E s \in Subscribers : subs[s]
    THEN {CHOOSE s \in Subscribers : subs[s]}
    ELSE {}
\* fan-out: every subscriber of the project gets the event
Recipients(subs) == {s \in Subscribers : subs[s]}

\* publish(projectId, event)
Publish(kind) ==
  /\ hubSeq < MaxEvents
  /\ hubSeq' = hubSeq + 1
  /\ published' = Append(published, Event(hubSeq + 1, kind))
  /\ channel' = [s \in Subscribers |->
                   IF s \in Recipients(subscribed)
                     THEN Append(channel[s], Event(hubSeq + 1, kind))
                     ELSE channel[s]]
  /\ UNCHANGED <<subscribed, since, inbox, hookStatus>>

KeepFirst(prev, data) ==
  CASE data.type = "progress" /\ prev[data.stage] = "pending" ->
         [prev EXCEPT ![data.stage] = data.status]
    [] data.type = "completed" -> [prev EXCEPT !.overall = "completed"]
    [] data.type = "error"     -> [prev EXCEPT !.error = data.error]
    [] OTHER                   -> prev
\* ws.onmessage: the setStatus updater for a parsed message
OnMessage(prev, data) ==
  CASE data.type = "progress"  -> [prev EXCEPT ![data.stage] = data.status]
    [] data.type = "completed" -> [prev EXCEPT !.overall = "completed"]
    [] data.type = "error"     -> [prev EXCEPT !.error = data.error]
    [] OTHER                   -> prev

\* the next event in flight reaches the subscriber's onmessage
Deliver(s) ==
  /\ channel[s] # <<>>
  /\ channel' = [channel EXCEPT ![s] = Tail(@)]
  /\ inbox' = [inbox EXCEPT ![s] = Append(@, Head(channel[s]))]
  /\ hookStatus' = [hookStatus EXCEPT ![s] = OnMessage(@, Head(channel[s]))]
  /\ UNCHANGED <<hubSeq, published, subscribed, since>>

HubNext ==
  \/ /\ \E s \in Subscribers : Subscribe(s)
     /\ UNCHANGED <<coreVars, hookVars, formVars, dashVars, viewVars>>
  \/ /\ \E s \in Subscribers : Unsubscribe(s)
     /\ UNCHANGED <<coreVars, hookVars, formVars, dashVars, viewVars>>
  \/ /\ \E kind \in EventKinds : Publish(kind)
     /\ UNCHANGED <<coreVars, hookVars, formVars, dashVars, viewVars>>
  \/ /\ \E s \in Subscribers : Deliver(s)
     /\ UNCHANGED <<coreVars, hookVars, formVars, dashVars, viewVars>>

(* --------------------------- useProjectStatus -------------------------- *)
\* mounts of the dashboard, and WebSockets created, in one browser session
MaxHooks == 3
MaxSockets == 3

Projects == {"A", "B"}
HookIds == 1..MaxHooks
SocketIds == 1..MaxSockets

MAX_RECONNECT_ATTEMPTS == 10

NoSocket == [readyState |-> "none", project |-> "none", owner |-> 0, listener |-> 0]

\* useState / useRef of a hook instance before its effect has run
NoHook ==
  [phase |-> "new", projectId |-> "none", isConnected |-> FALSE,
   heartbeat |-> 0, attempts |-> 0, timer |-> FALSE,
   timeouts |-> 0,       \* reconnect timeouts scheduled and not yet run
   asked |-> FALSE]      \* history: reconnect() was called since the mount

InitHook ==
  /\ wsCache = [p \in Projects |-> 0]
  /\ sockets = [s \in SocketIds |-> NoSocket]
  /\ nextSocket = 1
  /\ hooks = [i \in HookIds |-> NoHook]
  /\ nextHook = 1
  /\ lastPing = <<0, "none">>

Live == {"CONNECTING", "OPEN"}

\* !ws || ws.readyState === CLOSED || ws.readyState === CLOSING
NeedsNew(p) ==
  \/ wsCache[p] = 0
  \/ sockets[wsCache[p]].readyState \in {"CLOSED", "CLOSING"}

\* the dashboard mounts for project p: the effect of a new hook instance
\* runs (under React Strict Mode twice, the second run reusing the socket
\* the first has cached)
Mount(p) ==
  /\ nextHook <= MaxHooks
  /\ \A i \in HookIds : hooks[i].phase # "mounted"
  /\ nextHook' = nextHook + 1
  /\ IF NeedsNew(p)
       THEN /\ nextSocket <= MaxSockets
            /\ sockets' = [sockets EXCEPT ![nextSocket] =
                             [readyState |-> "CONNECTING", project |-> p,
                              owner |-> nextHook, listener |-> nextHook]]
            /\ wsCache' = [wsCache EXCEPT ![p] = nextSocket]
            /\ nextSocket' = nextSocket + 1
            /\ hooks' = [hooks EXCEPT ![nextHook] =
                           [NoHook EXCEPT !.phase = "mounted", !.projectId = p]]
       ELSE /\ sockets' = [sockets EXCEPT ![wsCache[p]].listener = nextHook]
            /\ hooks' = [hooks EXCEPT ![nextHook] =
                           [NoHook EXCEPT !.phase = "mounted", !.projectId = p,
                                          !.isConnected =
                                            (sockets[wsCache[p]].readyState = "OPEN")]]
            /\ UNCHANGED <<wsCache, nextSocket>>
  /\ UNCHANGED lastPing

\* the effect's cleanup: only the reconnect timeout is cleared; the
\* component's state is discarded, its refs live on in the socket handlers
Unmount(i) ==
  /\ hooks[i].phase = "mounted"
  /\ hooks' = [hooks EXCEPT ![i].phase = "unmounted", ![i].timer = FALSE,
                            ![i].timeouts = IF hooks[i].timer THEN @ - 1 ELSE @,
                            ![i].isConnected = FALSE, ![i].asked = FALSE]
  /\ UNCHANGED <<wsCache, sockets, nextSocket, nextHook, lastPing>>

\* ws.onopen, in the closure of the instance that created the socket
\* (setIsConnected on an unmounted component is dropped by React)
SocketOpen(s) ==
  /\ sockets[s].readyState = "CONNECTING"
  /\ sockets' = [sockets EXCEPT ![s].readyState = "OPEN"]
  /\ hooks' = [hooks EXCEPT ![sockets[s].owner].isConnected =
                              (hooks[sockets[s].owner].phase = "mounted"),
                            ![sockets[s].owner].attempts = 0,
                            ![sockets[s].owner].heartbeat = s]
  /\ UNCHANGED <<wsCache, nextSocket, nextHook, lastPing>>

\* ws.onerror
SocketError(s) ==
  /\ sockets[s].readyState \in Live
  /\ hooks[sockets[s].owner].isConnected
  /\ hooks' = [hooks EXCEPT ![sockets[s].owner].isConnected = FALSE]
  /\ UNCHANGED <<wsCache, sockets, nextSocket, nextHook, lastPing>>

\* the closing handshake starts (the server sends a Close frame)
StartClosing(s) ==
  /\ sockets[s].readyState = "OPEN"
  /\ sockets' = [sockets EXCEPT ![s].readyState = "CLOSING"]
  /\ UNCHANGED <<wsCache, nextSocket, hooks, nextHook, lastPing>>

AttemptsKept(n) == n
\* if (reconnectAttemptsRef.current < MAX_RECONNECT_ATTEMPTS)
\*   reconnectAttemptsRef.current += 1
NextAttempts(n) == IF n < MAX_RECONNECT_ATTEMPTS THEN n + 1 ELSE n

\* the connection is closed: ws.onclose, in the closure of the instance
\* that created the socket
SocketClosed(s) ==
  /\ sockets[s].readyState \in {"CONNECTING", "OPEN", "CLOSING"}
  /\ sockets' = [sockets EXCEPT ![s].readyState = "CLOSED"]
  /\ wsCache' = [wsCache EXCEPT ![sockets[s].project] = 0]
  /\ LET o == sockets[s].owner
     IN  hooks' = [hooks EXCEPT
                     ![o].isConnected = FALSE,
                     ![o].heartbeat = 0,
                     ![o].attempts = NextAttempts(@),
                     ![o].timer = @ \/ hooks[o].attempts < MAX_RECONNECT_ATTEMPTS,
                     ![o].timeouts =
                       IF hooks[o].attempts < MAX_RECONNECT_ATTEMPTS /\ ~hooks[o].timer
                         THEN @ + 1 ELSE @]
  /\ UNCHANGED <<nextSocket, nextHook, lastPing>>

\* the 5 s reconnect timeout: reconnectTimeoutRef = null; setIsConnected(false)
ReconnectTimeout(i) ==
  /\ hooks[i].timeouts > 0
  /\ hooks' = [hooks EXCEPT ![i].timer = FALSE, ![i].timeouts = @ - 1,
                            ![i].isConnected = FALSE]
  /\ UNCHANGED <<wsCache, sockets, nextSocket, nextHook, lastPing>>

PingAnyway(state) == TRUE
\* if (ws.readyState === WebSocket.OPEN) ws.send('ping')
PingGuard(state) == state = "OPEN"

\* the 30 s heartbeat interval of instance i ticks
Heartbeat(i) ==
  /\ hooks[i].heartbeat # 0
  /\ LET s == hooks[i].heartbeat
     IN  lastPing' = IF PingGuard(sockets[s].readyState)
                       THEN <<s, sockets[s].readyState>>
                       ELSE lastPing
  /\ UNCHANGED <<wsCache, sockets, nextSocket, hooks, nextHook>>

\* reconnect(): close the cached socket, drop it from the cache
Reconnect(i) ==
  /\ hooks[i].phase = "mounted"
  /\ LET p == hooks[i].projectId
     IN  /\ IF wsCache[p] # 0
              THEN /\ sockets' = [sockets EXCEPT ![wsCache[p]].readyState =
                                    IF @ \in Live THEN "CLOSING" ELSE @]
                   /\ wsCache' = [wsCache EXCEPT ![p] = 0]
              ELSE UNCHANGED <<sockets, wsCache>>
         /\ hooks' = [hooks EXCEPT ![i].isConnected = FALSE, ![i].asked = TRUE]
  /\ UNCHANGED <<nextSocket, nextHook, lastPing>>

HookNext ==
  \/ /\ \E p \in Projects : Mount(p)
     /\ UNCHANGED <<coreVars, hubVars, formVars, dashVars, viewVars>>
  \/ /\ \E i \in HookIds : Unmount(i)
     /\ UNCHANGED <<coreVars, hubVars, formVars, dashVars, viewVars>>
  \/ /\ \E s \in SocketIds : SocketOpen(s)
     /\ UNCHANGED <<coreVars, hubVars, formVars, dashVars, viewVars>>
  \/ /\ \E s \in SocketIds : SocketError(s)
     /\ UNCHANGED <<coreVars, hubVars, formVars, dashVars, viewVars>>
  \/ /\ \E s \in SocketIds : StartClosing(s)
     /\ UNCHANGED <<coreVars, hubVars, formVars, dashVars, viewVars>>
  \/ /\ \E s \in SocketIds : SocketClosed(s)
     /\ UNCHANGED <<coreVars, hubVars, formVars, dashVars, viewVars>>
  \/ /\ \E i \in HookIds : ReconnectTimeout(i)
     /\ UNCHANGED <<coreVars, hubVars, formVars, dashVars, viewVars>>
  \/ /\ \E i \in HookIds : Heartbeat(i)
     /\ UNCHANGED <<coreVars, hubVars, formVars, dashVars, viewVars>>
  \/ /\ \E i \in HookIds : Reconnect(i)
     /\ UNCHANGED <<coreVars, hubVars, formVars, dashVars, viewVars>>

(* ------------------------------ home page ------------------------------ *)
\* submissions of the form that reach the create request
MaxSubmits == 2
\* characters of a typed prompt
MaxPrompt == 2

Chars == {" ", "x"}
Prompts == UNION {[1..n -> Chars] : n \in 0..MaxPrompt}
ProjectIds == {"p1", "p2"}

RECURSIVE TrimStart(_)
TrimStart(text) ==
  IF text # <<>> /\ Head(text) = " " THEN TrimStart(Tail(text)) ELSE text

RECURSIVE TrimEnd(_)
TrimEnd(text) ==
  IF text # <<>> /\ text[Len(text)] = " "
    THEN TrimEnd(SubSeq(text, 1, Len(text) - 1))
    ELSE text

\* String.prototype.trim
Trim(text) == TrimEnd(TrimStart(text))

InitForm ==
  /\ prompt = <<>>
  /\ loading = FALSE
  /\ error = "null"
  /\ submitPc = "idle"
  /\ requests = <<>>
  /\ submits = 0
  /\ runOutcome = "none"
  /\ route = <<"home">>

\* onChange of the prompt textarea
SetPrompt(text) ==
  /\ route = <<"home">>
  /\ text # prompt
  /\ prompt' = text
  /\ UNCHANGED <<loading, error, submitPc, requests, submits, runOutcome, route>>

\* handleSubmit up to the first await (the submit button is disabled
\* while loading)
Submit ==
  /\ route = <<"home">>
  /\ ~loading
  /\ submitPc = "idle"
  /\ IF Trim(prompt) = <<>>
       THEN /\ error' = "Please enter a prompt"
            /\ UNCHANGED <<loading, submitPc, requests, submits>>
       ELSE /\ submits < MaxSubmits
            /\ loading' = TRUE
            /\ error' = "null"
            /\ requests' = Append(requests, [to |-> "create", prompt |-> prompt])
            /\ submits' = submits + 1
            /\ submitPc' = "create"
  /\ UNCHANGED <<prompt, runOutcome, route>>

\* the create request resolves with a 2xx response carrying the new id:
\* the run request is issued
CreateOk(id) ==
  /\ submitPc = "create"
  /\ requests' = Append(requests, [to |-> "run", id |-> id, force_rerun |-> FALSE])
  /\ submitPc' = "run"
  /\ route' = <<"home">>
  /\ UNCHANGED <<prompt, loading, error, submits, runOutcome>>

\* the create request resolves with !response.ok, or fetch rejects: the
\* outer catch and finally run
CreateFails(message) ==
  /\ submitPc = "create"
  /\ error' = message
  /\ loading' = FALSE
  /\ submitPc' = "idle"
  /\ UNCHANGED <<prompt, requests, submits, runOutcome, route>>

RunOutcomes == {"ok", "rejected", "throws"}

RedirectIfStarted(outcome) == outcome = "ok"
\* the inner try/catch swallows every outcome of the run request
RedirectAfterRun(outcome) == TRUE

\* the run request resolves (ok or not) or rejects; router.push and finally
RunReturns(outcome) ==
  /\ submitPc = "run"
  /\ runOutcome' = outcome
  /\ route' = IF RedirectAfterRun(outcome)
                THEN <<"project", requests[Len(requests)].id>>
                ELSE route
  /\ loading' = FALSE
  /\ submitPc' = "done"
  /\ UNCHANGED <<prompt, error, requests, submits>>

FormNext ==
  \/ /\ \E text \in Prompts : SetPrompt(text)
     /\ UNCHANGED <<coreVars, hubVars, hookVars, dashVars, viewVars>>
  \/ /\ Submit
     /\ UNCHANGED <<coreVars, hubVars, hookVars, dashVars, viewVars>>
  \/ /\ \E id \in ProjectIds : CreateOk(id)
     /\ UNCHANGED <<coreVars, hubVars, hookVars, dashVars, viewVars>>
  \/ /\ \E message \in {"Failed to create project", "Failed to fetch"} : CreateFails(message)
     /\ UNCHANGED <<coreVars, hubVars, hookVars, dashVars, viewVars>>
  \/ /\ \E outcome \in RunOutcomes : RunReturns(outcome)
     /\ UNCHANGED <<coreVars, hubVars, hookVars, dashVars, viewVars>>

(* ------------------------------ dashboard ------------------------------ *)
\* milliseconds of Date.now(), messages, fetches and document versions
MaxClock == 3
MaxHandled == 2
MaxFetches == 3
MaxData == 2

InitDash ==
  /\ clock = 1
  /\ lastUpdate = 1          \* useState(Date.now())
  /\ effectDeps = 0
  /\ handled = 0
  /\ fetches = <<>>
  /\ serverData = 0
  /\ shown = [data |-> 0, from |-> 0]    \* initialProject

\* a millisecond passes
Tick ==
  /\ clock < MaxClock
  /\ clock' = clock + 1
  /\ UNCHANGED <<lastUpdate, effectDeps, handled, fetches, serverData, shown>>

\* the backend writes the project document
ServerWrite ==
  /\ serverData < MaxData
  /\ serverData' = serverData + 1
  /\ UNCHANGED <<clock, lastUpdate, effectDeps, handled, fetches, shown>>

\* ws.onmessage handles a progress, completed or error message:
\* setLastUpdate(Date.now())
HandleMessage ==
  /\ handled < MaxHandled
  /\ handled' = handled + 1
  /\ lastUpdate' = clock
  /\ UNCHANGED <<clock, effectDeps, fetches, serverData, shown>>

\* React runs an effect again when a dependency is not Object.is-equal to
\* its value at the previous run
DepsChanged(prev, now) == prev # now

\* the effect of ProjectDashboard runs: fetchLatestProject() is called
RunEffect ==
  /\ DepsChanged(effectDeps, lastUpdate)
  /\ Len(fetches) < MaxFetches
  /\ effectDeps' = lastUpdate
  /\ fetches' = Append(fetches, [state |-> "sent", data |-> 0, after |-> handled])
  /\ UNCHANGED <<clock, lastUpdate, handled, serverData, shown>>

\* the server handles GET /projects/{id}
ServerReads(f) ==
  /\ f \in 1..Len(fetches)
  /\ fetches[f].state = "sent"
  /\ fetches' = [fetches EXCEPT ![f].state = "answered", ![f].data = serverData]
  /\ UNCHANGED <<clock, lastUpdate, effectDeps, handled, serverData, shown>>

\* setProject(data)
Show(f) == [data |-> fetches[f].data, from |-> f]

\* the response of fetch f arrives with response.ok
FetchResolves(f) ==
  /\ f \in 1..Len(fetches)
  /\ fetches[f].state = "answered"
  /\ fetches' = [fetches EXCEPT ![f].state = "done"]
  /\ shown' = Show(f)
  /\ UNCHANGED <<clock, lastUpdate, effectDeps, handled, serverData>>

\* fetch f rejects or its response is not ok: nothing is shown
FetchFails(f) ==
  /\ f \in 1..Len(fetches)
  /\ fetches[f].state \in {"sent", "answered"}
  /\ fetches' = [fetches EXCEPT ![f].state = "failed"]
  /\ UNCHANGED <<clock, lastUpdate, effectDeps, handled, serverData, shown>>

DashNext ==
  \/ /\ Tick
     /\ UNCHANGED <<coreVars, hubVars, hookVars, formVars, viewVars>>
  \/ /\ ServerWrite
     /\ UNCHANGED <<coreVars, hubVars, hookVars, formVars, viewVars>>
  \/ /\ HandleMessage
     /\ UNCHANGED <<coreVars, hubVars, hookVars, formVars, viewVars>>
  \/ /\ RunEffect
     /\ UNCHANGED <<coreVars, hubVars, hookVars, formVars, viewVars>>
  \/ /\ \E f \in 1..MaxFetches : ServerReads(f)
     /\ UNCHANGED <<coreVars, hubVars, hookVars, formVars, viewVars>>
  \/ /\ \E f \in 1..MaxFetches : FetchResolves(f)
     /\ UNCHANGED <<coreVars, hubVars, hookVars, formVars, viewVars>>
  \/ /\ \E f \in 1..MaxFetches : FetchFails(f)
     /\ UNCHANGED <<coreVars, hubVars, hookVars, formVars, viewVars>>

(* ------------------------------ ScriptView ----------------------------- *)
\* PUT /script requests sent from one ScriptView
MaxSaves == 2

Texts == Prompts \ {<<>>}

InitView ==
  /\ script \in {<<"x">>}
  /\ editedScript = script
  /\ isEditing = FALSE
  /\ isSaving = FALSE
  /\ saveStatus = "null"
  /\ analysisResult = "null"
  /\ settled = "none"
  /\ timers = [regenerate \in BOOLEAN |-> 0]
  /\ saves = 0

\* handleEdit
HandleEdit ==
  /\ ~isEditing
  /\ isEditing' = TRUE
  /\ saveStatus' = "null"
  /\ analysisResult' = "null"
  /\ UNCHANGED <<script, editedScript, isSaving, settled, timers, saves>>

\* handleCancel (the button is disabled while saving)
HandleCancel ==
  /\ isEditing
  /\ ~isSaving
  /\ editedScript' = script
  /\ isEditing' = FALSE
  /\ saveStatus' = "null"
  /\ analysisResult' = "null"
  /\ UNCHANGED <<script, isSaving, settled, timers, saves>>

\* onChange of the editor's textarea
TypeScript(text) ==
  /\ isEditing
  /\ text # editedScript
  /\ editedScript' = text
  /\ UNCHANGED <<script, isEditing, isSaving, saveStatus, analysisResult,
                 settled, timers, saves>>

\* the dashboard passes a new script prop: the effect copies it
ScriptProp(text) ==
  /\ text # script
  /\ script' = text
  /\ editedScript' = text
  /\ UNCHANGED <<isEditing, isSaving, saveStatus, analysisResult, settled,
                 timers, saves>>

\* handleSave up to the await (the button is disabled while saving and
\* while the text equals the script prop)
HandleSave ==
  /\ isEditing
  /\ ~isSaving
  /\ editedScript # script
  /\ Trim(editedScript) # <<>>
  /\ saves < MaxSaves
  /\ saves' = saves + 1
  /\ isSaving' = TRUE
  /\ saveStatus' = "analyzing"
  /\ UNCHANGED <<script, editedScript, isEditing, analysisResult, settled, timers>>

\* result.should_regenerate ? 'regenerating' : 'success'
StatusOf(should_regenerate) ==
  IF should_regenerate THEN "regenerating" ELSE "success"

\* the PUT resolves with response.ok: the result is shown, the timeout is
\* armed, finally isSaving is false
SaveResolves(should_regenerate) ==
  /\ isSaving
  /\ analysisResult' = [should_regenerate |-> should_regenerate]
  /\ saveStatus' = StatusOf(should_regenerate)
  /\ timers' = [timers EXCEPT ![should_regenerate] = @ + 1]
  /\ isSaving' = FALSE
  /\ settled' = IF should_regenerate THEN "regenerate" ELSE "keep"
  /\ UNCHANGED <<script, editedScript, isEditing, saves>>

\* the PUT rejects or its response is not ok: catch, finally
SaveFails ==
  /\ isSaving
  /\ saveStatus' = "null"
  /\ isSaving' = FALSE
  /\ settled' = "failed"
  /\ UNCHANGED <<script, editedScript, isEditing, analysisResult, timers, saves>>

\* a 3 s timeout fires: leave editing mode, and clear the status unless
\* the result of its save asked for regeneration
TimeoutFires(should_regenerate) ==
  /\ timers[should_regenerate] > 0
  /\ timers' = [timers EXCEPT ![should_regenerate] = @ - 1]
  /\ isEditing' = FALSE
  /\ saveStatus' = IF should_regenerate THEN saveStatus ELSE "null"
  /\ UNCHANGED <<script, editedScript, isSaving, analysisResult, settled, saves>>

ViewNext ==
  \/ /\ HandleEdit
     /\ UNCHANGED <<coreVars, hubVars, hookVars, formVars, dashVars>>
  \/ /\ HandleCancel
     /\ UNCHANGED <<coreVars, hubVars, hookVars, formVars, dashVars>>
  \/ /\ \E text \in Prompts : TypeScript(text)
     /\ UNCHANGED <<coreVars, hubVars, hookVars, formVars, dashVars>>
  \/ /\ \E text \in Texts : ScriptProp(text)
     /\ UNCHANGED <<coreVars, hubVars, hookVars, formVars, dashVars>>
  \/ /\ HandleSave
     /\ UNCHANGED <<coreVars, hubVars, hookVars, formVars, dashVars>>
  \/ /\ \E should_regenerate \in BOOLEAN : SaveResolves(should_regenerate)
     /\ UNCHANGED <<coreVars, hubVars, hookVars, formVars, dashVars>>
  \/ /\ SaveFails
     /\ UNCHANGED <<coreVars, hubVars, hookVars, formVars, dashVars>>
  \/ /\ \E should_regenerate \in BOOLEAN : TimeoutFires(should_regenerate)
     /\ UNCHANGED <<coreVars, hubVars, hookVars, formVars, dashVars>>

(* ---------------------------- specification ---------------------------- *)
Init == InitCore /\ InitHub /\ InitHook /\ InitForm /\ InitDash /\ InitView

Next ==
  \/ /\ \E supplied \in RawInputs, conclusive \in BOOLEAN :
          CreateAndRun(supplied, conclusive)
     /\ UNCHANGED clientVars
  \/ /\ \E w \in WalkIds : StartScheduled(w)
     /\ UNCHANGED clientVars
  \/ /\ ClientRun
     /\ UNCHANGED clientVars
  \/ /\ \E w \in WalkIds : SkipStage(w)
     /\ UNCHANGED clientVars
  \/ /\ \E w \in WalkIds : StartStage(w)
     /\ UNCHANGED clientVars
  \/ /\ \E w \in WalkIds : GenSuccess(w)
     /\ UNCHANGED clientVars
  \/ /\ \E w \in WalkIds : GenFallback(w)
     /\ UNCHANGED clientVars
  \/ /\ \E w \in WalkIds : GenFailure(w)
     /\ UNCHANGED clientVars
  \/ /\ \E w \in WalkIds : Finish(w)
     /\ UNCHANGED clientVars
  \/ /\ \E name \in EditNames, judge \in Judgements : ApplyEdit(name, judge)
     /\ UNCHANGED clientVars

Spec == Init /\ [][Next]_vars

\* the walk holding the lock takes its next step, and every generation
\* operation returns or times out
WalkStep(w) ==
  \/ SkipStage(w) \/ StartStage(w)
  \/ GenSuccess(w) \/ GenFallback(w) \/ GenFailure(w)
  \/ Finish(w)

LiveSpec ==
  /\ Init
  /\ [][Next]_vars
  /\ WF_vars((\E w \in WalkIds : WalkStep(w)) /\ UNCHANGED clientVars)

\* the Progress Hub with its subscribers
HubSpec == Init /\ [][HubNext]_vars

\* the status hook, its WebSockets and the connection cache
HookSpec == Init /\ [][HookNext]_vars

\* the creation form of the home page
FormSpec == Init /\ [][FormNext]_vars

\* the dashboard, its refresh effect and its fetches
DashSpec == Init /\ [][DashNext]_vars

\* the script editor of the dashboard
ViewSpec == Init /\ [][ViewNext]_vars

(* ============================== properties ============================= *)
AllDone == \A s \in Stages : stage[s] = "done"

ActiveWalks == {w \in WalkIds : walks[w].state = "active"}

\* the walk has gone through the whole registry and is about to release the lock
Walked(w) ==
  /\ walks[w].state = "active"
  /\ ~walks[w].waiting
  /\ walks[w].pos = End

\* this step handles a PUT /script request
EditStep == editCount' = editCount + 1

\* this step is walk w invoking a generation operation
Invokes(w) == Len(walks'[w].log) > Len(walks[w].log)

Invoked(w) == walks'[w].log[Len(walks'[w].log)]

\* this step issues run request w (a scheduled run starts, or the client posts)
Requests(w) ==
  /\ walks[w].state \in {"none", "scheduled"}
  /\ walks'[w].state \in {"active", "rejected"}

IsPrefix(p, q) == Len(p) <= Len(q) /\ \A i \in 1..Len(p) : p[i] = q[i]

\* log invokes only stages of seq, none twice, in the order of seq
InOrder(log, seq) ==
  /\ \A i \in 1..Len(log) : \E k \in 1..Len(seq) : seq[k] = log[i]
  /\ \A i, j \in 1..Len(log) :
       i < j => \E k, l \in 1..Len(seq) : k < l /\ seq[k] = log[i] /\ seq[l] = log[j]

Regenerated == <<"storyboard", "shot_list">>

\* the diff magnitude of this step's edit, against the script stored before it
EditChanged == ChangedUnits(TextOf(artifact["script"]), edited')
EditTotal == TotalUnits(TextOf(artifact["script"]), edited')

(* ---------------------------------- C1 --------------------------------- *)
\* C1: in every state of an existing project the overall status is
\* 'completed' exactly when all three StageRecords are 'done', and it is
\* 'processing' whenever the run lock is held.
C1_StatusMatchesStages ==
  status # "none" =>
    /\ (status = "completed") <=> AllDone
    /\ lock # 0 => status = "processing"

(* ---------------------------------- C2 --------------------------------- *)
C2_OneWalk ==
  /\ Cardinality(ActiveWalks) <= 1
  /\ \A w \in ActiveWalks : lock = w
  /\ lock # 0 => lock \in ActiveWalks
  /\ \A s \in Stages :
       Cardinality({w \in ActiveWalks : walks[w].waiting /\ Current(w) = s}) <= 1

C2_AdmitOrReject ==
  \A w \in WalkIds :
    Requests(w) =>
      IF lock = 0
        THEN walks'[w].state = "active" /\ lock' = w
        ELSE /\ walks'[w].state = "rejected"
             /\ lock' = lock
             /\ stage' = stage
             /\ \A v \in WalkIds \ {w} : walks'[v] = walks[v]

\* C2: of two run requests that meet, one takes the lock and walks, the other
\* is rejected in the step that issues it; at most one walk is active at any
\* time and no stage has two walks waiting on its generation.
C2_ExactlyOneProceeds == []C2_OneWalk /\ [][C2_AdmitOrReject]_vars

\* a run request was rejected while another walk holds the lock
C2_Witness ==
  /\ lock # 0
  /\ \E w \in WalkIds : walks[w].state = "rejected"
  /\ \E w \in ActiveWalks : walks[w].waiting

(* ---------------------------------- C3 --------------------------------- *)
\* C3: a walk invokes the generation operation of a stage only while the
\* StageRecord of the stage's upstream is 'done'.
C3_UpstreamDone ==
  [][\A w \in WalkIds :
       Invokes(w) =>
         \/ Upstream(Invoked(w)) = "none"
         \/ stage[Upstream(Invoked(w))] = "done"]_vars

C6_EditEffect ==
  (EditStep /\ response'.significant) =>
    /\ \A s \in {"storyboard", "shot_list"} :
         stage'[s] = "pending" /\ artifact'[s] = NULL
    /\ artifact'["script"] = <<edited'>>
    /\ stage'["script"] = stage["script"]
    /\ walks'[nextWalk] = ScheduledRec("edit", {"script"})

C6_ScriptKept ==
  (~EditStep /\ lock # 0 /\ walks[lock].origin = "edit") =>
    artifact'["script"] = artifact["script"]

C6_EditRun ==
  \A w \in WalkIds :
    walks[w].origin = "edit" =>
      /\ InOrder(walks[w].log, Regenerated)
      /\ (/\ Walked(w)
          /\ ~walks[w].failed
          /\ {"storyboard", "shot_list"} \subseteq walks[w].pendingAtStart)
           => walks[w].log = Regenerated

C7_MinorEditFrame ==
  [][(EditStep /\ ~response'.significant) =>
       /\ artifact'["script"] = <<edited'>>
       /\ stage' = stage
       /\ artifact'["storyboard"] = artifact["storyboard"]
       /\ artifact'["shot_list"] = artifact["shot_list"]
       /\ walks' = walks
       /\ nextWalk' = nextWalk
       /\ UNCHANGED <<status, lock, classification>>]_vars

\* a typo-sized edit of a completed project: stages done, artifacts kept
C7_Witness ==
  /\ editCount > 0
  /\ ~response.significant
  /\ artifact["script"] = <<edited>>
  /\ AllDone
  /\ artifact["storyboard"] # NULL /\ artifact["shot_list"] # NULL
  /\ status = "completed"

(* ---------------------------------- C8 --------------------------------- *)
IsVerdict(v) ==
  /\ v.total > 0
  /\ v.changed \in 0..v.total
  /\ v.significant \in BOOLEAN
  /\ v.rationale \in {"below threshold", "analysis failed", "judged"}

C8_Accepted ==
  (status # "none" /\ editCount < MaxEdits /\ nextWalk <= MaxWalks) =>
    \A name \in EditNames, judge \in Judgements : ENABLED ApplyEdit(name, judge)

C8_Answered ==
  EditStep => (artifact'["script"] = <<edited'>> /\ IsVerdict(response'))

\* C8: every edit request is accepted in every state of the project: its
\* content becomes the stored script and the response carries a verdict
\* (magnitude, significance, rationale), also when the judgment call failed.
C8_EditNeverRejected == []C8_Accepted /\ [][C8_Answered]_vars

\* an edit handled while a run holds the lock and the judgment call failed
C8_Witness ==
  /\ lock # 0
  /\ response.rationale = "analysis failed"
  /\ artifact["script"] = <<edited>>

(* ---------------------------------- C9 --------------------------------- *)
\* C9: with no stage pre-satisfied, a run of the fresh project that no
\* generation failure stops has invoked script, storyboard and shot_list
\* generation once each, in this order; no run invokes them in another order.
C9_AllThreeInOrder ==
  (\A s \in Stages : ~classification[s]) =>
    \A w \in WalkIds :
      /\ (walks[w].origin # "edit" /\ walks[w].pendingAtStart = Stages)
           => IsPrefix(walks[w].log, <<"script", "storyboard", "shot_list">>)
      /\ (/\ Walked(w)
          /\ walks[w].origin # "edit"
          /\ walks[w].pendingAtStart = Stages
          /\ ~walks[w].failed)
           => walks[w].log = <<"script", "storyboard", "shot_list">>

\* the creation run of a project with nothing supplied has generated all three
C9_Witness ==
  \E w \in WalkIds :
    /\ Walked(w)
    /\ walks[w].origin = "create"
    /\ \A s \in Stages : ~classification[s]
    /\ walks[w].log = <<"script", "storyboard", "shot_list">>
    /\ AllDone

(* ---------------------------------- C10 -------------------------------- *)
\* C10: with script pre-satisfied, the script StageRecord is 'done' from
\* creation on, the stored script is the user's text until an edit replaces
\* it, no run invokes script generation, and a run that finds storyboard and
\* shot_list pending and is not stopped by a failure invokes storyboard and
\* then shot_list.
C10_UserScriptKept ==
  (status # "none" /\ classification["script"]) =>
    /\ stage["script"] = "done"
    /\ editCount = 0 => artifact["script"] = <<"user">>
    /\ \A w \in WalkIds :
         /\ \A i \in 1..Len(walks[w].log) : walks[w].log[i] # "script"
         /\ ~classification["storyboard"] =>
              /\ InOrder(walks[w].log, Regenerated)
              /\ (/\ Walked(w)
                  /\ ~walks[w].failed
                  /\ {"storyboard", "shot_list"} \subseteq walks[w].pendingAtStart)
                   => walks[w].log = Regenerated

\* the creation run of a project created from the user's script has generated
\* storyboard and shot_list from that script
C10_Witness ==
  \E w \in WalkIds :
    /\ Walked(w)
    /\ walks[w].origin = "create"
    /\ classification["script"] /\ ~classification["storyboard"]
    /\ walks[w].log = Regenerated
    /\ artifact["script"] = <<"user">>
    /\ artifact["storyboard"] = <<"frames", "user">>
    /\ editCount = 0
(* ---------------------------------- C11 -------------------------------- *)
\* this step is the generation operation invoked by walk w returning
GenerationReturns(w) ==
  /\ walks[w].state = "active"
  /\ walks[w].waiting
  /\ ~walks'[w].waiting

\* ... without the artifact the operation generates from its input
GenerationFailed(w) ==
  /\ GenerationReturns(w)
  /\ artifact'[Current(w)] # Generate(Current(w), walks[w].input)

\* C11: when the generation operation of a stage fails during a run, the
\* stage becomes 'failed', the walk stops and invokes no later generation
\* operation, and nothing is stored as the artifact of the stage.
C11_FailStop ==
  [][\A w \in WalkIds :
       /\ GenerationFailed(w) =>
            /\ stage'[Current(w)] = "failed"
            /\ walks'[w].pos = End
            /\ artifact'[Current(w)] = artifact[Current(w)]
       /\ (walks[w].state = "active" /\ walks[w].failed) => ~Invokes(w)]_vars

(* ---------------------------------- C12 -------------------------------- *)
\* C12: an edit whose qualitative judgment call failed is answered with the
\* magnitude of the quantitative pass and a not-significant verdict, and the
\* step resets no StageRecord, clears no artifact and schedules no run.
C12_JudgmentFailure ==
  [][(EditStep /\ response'.rationale = "analysis failed") =>
       /\ ~response'.significant
       /\ response'.changed = EditChanged
       /\ response'.total = EditTotal
       /\ stage' = stage
       /\ \A s \in Dependents("script") : artifact'[s] = artifact[s]
       /\ walks' = walks
       /\ nextWalk' = nextWalk]_vars

\* an edit above the threshold of a completed project whose judgment call
\* failed: the finished storyboard and shot list are kept
C12_Witness ==
  /\ editCount > 0
  /\ response.rationale = "analysis failed"
  /\ response.changed * 100 >= ThresholdPct * response.total
  /\ ~response.significant
  /\ AllDone
  /\ artifact["storyboard"] # NULL /\ artifact["shot_list"] # NULL
  /\ \A w \in WalkIds : walks[w].state # "scheduled"

(* ---------------------------------- C19 -------------------------------- *)
\* no run is scheduled or walking: nothing happens until the next request
Quiescent == \A w \in WalkIds : walks[w].state \notin {"scheduled", "active"}

\* C19: after a significant edit the dependents of script leave 'pending':
\* once every run has ended and no generation has failed, neither storyboard
\* nor shot_list is still 'pending', also when the edit arrived during a run.
C19_Regenerated ==
  (/\ editCount > 0
   /\ response.significant
   /\ Quiescent
   /\ \A s \in Stages : stage[s] # "failed")
    => \A s \in Dependents("script") : stage[s] # "pending"

(* ---------------------------------- C20 -------------------------------- *)
\* C20: while a walk holds the run lock of the project, a step that resets
\* a StageRecord to 'pending' or clears an artifact is a step of that walk.
C20_OnlyLockHolder ==
  [][(/\ lock # 0
      /\ \E s \in Stages :
           \/ stage[s] # "pending" /\ stage'[s] = "pending"
           \/ artifact[s] # NULL /\ artifact'[s] = NULL)
       => walks'[lock] # walks[lock]]_vars

(* ---------------------------------- C13 -------------------------------- *)
\* what a subscriber has received followed by what is in flight to it
Stream(s) == inbox[s] \o channel[s]

\* the status of the last progress message for the stage among msgs
RECURSIVE LastProgress(_, _)
LastProgress(msgs, st) ==
  IF msgs = <<>> THEN "pending"
  ELSE LET m == msgs[Len(msgs)]
       IN  IF m.type = "progress" /\ m.stage = st THEN m.status
           ELSE LastProgress(SubSeq(msgs, 1, Len(msgs) - 1), st)

\* C13: what a subscriber receives are the published events, in the order of
\* publication and with strictly increasing sequence numbers, and the status
\* its hook holds for a stage is that of the last progress message received
\* for the stage.
C13_InOrder ==
  \A s \in Subscribers :
    /\ \A i \in 1..Len(Stream(s)) : Stream(s)[i] = published[Stream(s)[i].seq]
    /\ \A i, j \in 1..Len(Stream(s)) : i < j => Stream(s)[i].seq < Stream(s)[j].seq
    /\ \A st \in Stages : hookStatus[s][st] = LastProgress(inbox[s], st)

\* a hook has received 'running' and then 'done' for script
C13_Witness ==
  \E s \in Subscribers :
    /\ Len(inbox[s]) = 2
    /\ inbox[s][1].status = "running" /\ inbox[s][1].stage = "script"
    /\ inbox[s][2].status = "done" /\ inbox[s][2].stage = "script"
    /\ hookStatus[s]["script"] = "done"

(* ---------------------------------- C14 -------------------------------- *)
\* what the subscriber received since it last subscribed
ReceivedSince(s) ==
  LET Later(e) == e.seq > since[s] IN SelectSeq(inbox[s], Later)

C14_Complete ==
  \A s \in Subscribers :
    subscribed[s] =>
      ReceivedSince(s) \o channel[s] = SubSeq(published, since[s] + 1, Len(published))

C14_Independent ==
  \A s \in Subscribers :
    inbox'[s] # inbox[s] =>
      \A t \in Subscribers \ {s} : channel'[t] = channel[t] /\ inbox'[t] = inbox[t]

\* C14: every subscriber has received, or has in flight to it, every event
\* published since it subscribed, however many subscribers there are and
\* whatever subscriptions came and went; a delivery to one subscriber leaves
\* what is in flight to the others untouched.
C14_FanOut == []C14_Complete /\ [][C14_Independent]_vars

\* two subscribers, one of which subscribed later, have both received the
\* same event
C14_Witness ==
  /\ \A s \in Subscribers : subscribed[s] /\ inbox[s] # <<>>
  /\ since["a"] # since["b"]
  /\ inbox["a"][Len(inbox["a"])] = inbox["b"][Len(inbox["b"])]

(* -------------------------------- C15 ---------------------------------- *)
\* the WebSockets of project p that are connecting or open
LiveSockets(p) ==
  {s \in SocketIds : sockets[s].project = p /\ sockets[s].readyState \in Live}

\* C15: after a close the user did not ask for, with fewer than 10
\* attempts counted, the hook opens a new connection by itself.  In a
\* finite run: a mounted instance that has counted a close, was never asked
\* to reconnect and has no reconnect timeout pending any more has a
\* connecting or open WebSocket for its project (nothing else of the hook
\* is pending in such a state: only a new mount creates a WebSocket).
C15_Reconnects ==
  \A i \in HookIds :
    ( /\ hooks[i].phase = "mounted"
      /\ ~hooks[i].asked
      /\ hooks[i].attempts \in 1..(MAX_RECONNECT_ATTEMPTS - 1)
      /\ ~hooks[i].timer )
      => LiveSockets(hooks[i].projectId) # {}

(* -------------------------------- C16 ---------------------------------- *)
\* C16: across mounts, unmounts, remounts, closes and manual reconnects
\* there is at most one WebSocket per project id that is connecting or
\* open.
C16_OneSocket ==
  \A p \in Projects : Cardinality(LiveSockets(p)) <= 1

(* -------------------------------- C17 ---------------------------------- *)
HasHeartbeat(s) == \E i \in HookIds : hooks[i].heartbeat = s

\* C17: every open WebSocket has a running heartbeat, a 'ping' is sent only
\* on an open connection, and no step stops the heartbeat of a connection
\* that is open after the step.
C17_Heartbeats ==
  /\ [](/\ \A s \in SocketIds : sockets[s].readyState = "OPEN" => HasHeartbeat(s)
        /\ lastPing[1] # 0 => lastPing[2] = "OPEN")
  /\ [][\A s \in SocketIds :
          (HasHeartbeat(s) /\ sockets'[s].readyState = "OPEN") => HasHeartbeat(s)']_vars

\* two connections were opened by two instances; one has closed, the
\* other is still open, has its heartbeat and was the last one pinged
C17_Witness ==
  \E s, t \in SocketIds :
    /\ sockets[s].owner # sockets[t].owner
    /\ sockets[s].readyState = "CLOSED" /\ hooks[sockets[s].owner].attempts > 0
    /\ sockets[t].readyState = "OPEN" /\ lastPing = <<t, "OPEN">>
    /\ HasHeartbeat(t)


(* -------------------------------- C18 ---------------------------------- *)
RunRequests(id) ==
  {k \in 1..Len(requests) : requests[k].to = "run" /\ requests[k].id = id}

\* C18: a submission with a non-blank prompt whose create request succeeds
\* issues exactly one run request for the new project and then redirects
\* to its page, however the run request ends; one whose create request
\* fails issues no run request, does not redirect and shows the error.
C18_Submit ==
  /\ [](/\ \A id \in ProjectIds : Cardinality(RunRequests(id)) <= 1
        /\ \A k \in 1..Len(requests) :
             requests[k].to = "create" => Trim(requests[k].prompt) # <<>>
        /\ route # <<"home">> =>
             /\ Cardinality(RunRequests(route[2])) = 1
             /\ runOutcome \in RunOutcomes)
  /\ [][/\ (submitPc = "create" /\ submitPc' = "run") =>
             /\ \E id \in ProjectIds :
                  requests' = Append(requests, [to |-> "run", id |-> id,
                                                force_rerun |-> FALSE])
             /\ route' = <<"home">>
        /\ (submitPc = "run" /\ submitPc' # "run") =>
             /\ requests' = requests
             /\ route' = <<"project", requests[Len(requests)].id>>
        /\ (submitPc = "create" /\ submitPc' \notin {"create", "run"}) =>
             /\ requests' = requests
             /\ route' = <<"home">>
             /\ error' # "null"]_vars

\* a first submission whose create request failed, a second one whose
\* create succeeded and whose run request threw: redirected all the same
C18_Witness ==
  /\ Len(requests) = 3
  /\ requests[1].to = "create" /\ requests[2].to = "create"
  /\ error = "null"
  /\ runOutcome = "throws"
  /\ route = <<"project", "p2">>


(* -------------------------------- C21 ---------------------------------- *)
\* a run request is answered in this step
Answered(w) ==
  walks[w].state \in {"none", "scheduled"} /\ walks'[w].state \in {"active", "rejected"}

\* C21: a run that holds the run lock eventually releases it, however its
\* walk ends; while the lock is free no StageRecord is running and a run
\* request is accepted.
C21_Released ==
  /\ (lock # 0) ~> (lock = 0)
  /\ [](lock = 0 => \A s \in Stages : stage[s] # "running")
  /\ [][\A w \in WalkIds :
          (lock = 0 /\ Answered(w)) => (walks'[w].state = "active" /\ lock' = w)]_vars

\* a walk ended in a generation failure and released the lock; the next
\* run request was accepted and holds it
C21_Witness ==
  /\ walks[1].state = "finished"
  /\ \E s \in Stages : stage[s] = "failed"
  /\ walks[2].state = "active"
  /\ lock = 2


(* -------------------------------- C22 ---------------------------------- *)
\* C22: every message the hook handles is followed by a fetch of the
\* project, also when two messages carry the same Date.now().  In a finite
\* run: once two messages were handled and no run of the effect is due,
\* the last fetch was issued after the last message.
C22_FetchedSince ==
  (handled >= 2 /\ effectDeps = lastUpdate)
    => (fetches # <<>> /\ fetches[Len(fetches)].after = handled)

(* -------------------------------- C27 ---------------------------------- *)
\* C27: when all fetches have settled (and all of them succeeded) the data
\* shown is the response of the most recently issued fetch.
C27_LatestShown ==
  ( /\ fetches # <<>>
    /\ \A f \in 1..Len(fetches) : fetches[f].state = "done" )
    => shown = [data |-> fetches[Len(fetches)].data, from |-> Len(fetches)]


(* -------------------------------- C23 ---------------------------------- *)
TimeoutStep == \E r \in BOOLEAN : timers'[r] < timers[r]

\* C23: when a save settles isSaving is false and saveStatus is
\* 'regenerating' exactly when the response has should_regenerate true,
\* 'success' exactly when it has should_regenerate false and null exactly
\* when the request failed; a timeout clears a 'success' status of its
\* save and no timeout clears a 'regenerating' status.
C23_Settled ==
  [][/\ (isSaving /\ ~isSaving') =>
          /\ saveStatus' = "regenerating" <=> settled' = "regenerate"
          /\ saveStatus' = "success" <=> settled' = "keep"
          /\ saveStatus' = "null" <=> settled' = "failed"
     /\ (TimeoutStep /\ saveStatus = "success" /\ timers'[FALSE] < timers[FALSE])
          => saveStatus' = "null"
     /\ (TimeoutStep /\ saveStatus = "regenerating")
          => saveStatus' = "regenerating"]_vars


(* -------------------------------- C24 ---------------------------------- *)
\* C24: in the status a hook exposes, overall is 'completed' only when the
\* script, storyboard and shot_list entries are all 'done'.
C24_CompletedMeansDone ==
  \A s \in Subscribers :
    hookStatus[s].overall = "completed"
      => \A st \in Stages : hookStatus[s][st] = "done"


(* -------------------------------- C25 ---------------------------------- *)
\* C25: isConnected of a mounted hook instance is true only while the
\* connection of its project is open (a connection whose closing handshake
\* has started and whose close event has not fired yet is let pass).
C25_ConnectedMeansOpen ==
  \A i \in HookIds :
    (hooks[i].phase = "mounted" /\ hooks[i].isConnected)
      => \E s \in SocketIds :
           /\ sockets[s].project = hooks[i].projectId
           /\ sockets[s].readyState \in {"OPEN", "CLOSING"}


(* -------------------------------- C26 ---------------------------------- *)
Opens(s) == sockets[s].readyState # "OPEN" /\ sockets'[s].readyState = "OPEN"

Closes(s) == sockets[s].readyState # "CLOSED" /\ sockets'[s].readyState = "CLOSED"

\* C26: the reconnection counter of a hook instance stays between 0 and
\* 10, is 0 after a connection of the instance opens, goes up by exactly
\* one at a close while below 10 and changes at no other step; at most one
\* reconnection timeout of the instance is pending.
C26_Counter ==
  /\ [](\A i \in HookIds :
          /\ hooks[i].attempts \in 0..MAX_RECONNECT_ATTEMPTS
          /\ hooks[i].timeouts <= 1)
  /\ [][/\ \A s \in SocketIds :
             /\ Opens(s) => hooks'[sockets[s].owner].attempts = 0
             /\ (Closes(s) /\ hooks[sockets[s].owner].attempts < MAX_RECONNECT_ATTEMPTS)
                  => hooks'[sockets[s].owner].attempts =
                       hooks[sockets[s].owner].attempts + 1
        /\ \A i \in HookIds :
             hooks'[i].attempts # hooks[i].attempts
               => \E s \in SocketIds : sockets[s].owner = i /\ (Opens(s) \/ Closes(s))]_vars

\* one instance has counted the close of its connection after it had been
\* open and has its timeout pending; the connection of another is open
C26_Witness ==
  \E s, t \in SocketIds :
    /\ sockets[s].owner # sockets[t].owner
    /\ sockets[s].readyState = "CLOSED"
    /\ lastPing = <<s, "OPEN">>
    /\ hooks[sockets[s].owner].attempts = 1
    /\ hooks[sockets[s].owner].timeouts = 1
    /\ sockets[t].readyState = "OPEN"
    /\ hooks[sockets[t].owner].attempts = 0

====
